---- MODULE Spec2Model ----
(***************************************************************************)
(* claudebox: the launcher that runs Claude Code inside a sandbox.         *)
(*                                                                         *)
(* The repository holds two revisions of the launcher:                     *)
(*   rev = "A"  src/src/claudebox.js   (dry run, ssh staging, ssh socket   *)
(*                                      rebound to /tmp/ssh-agent.sock)    *)
(*   rev = "B"  src/unnamed/part_001   (git config, IDE integration)       *)
(*                                                                         *)
(* Strings of the program are sequences of atoms: "/home/u" is             *)
(* <<"/", "home", "/", "u">>, the flag "--bind" is <<"--bind">>.  An       *)
(* argument list is a sequence of such strings, an environment a function  *)
(* from variable names to such strings.                                    *)
(***************************************************************************)
EXTENDS Integers, Sequences, FiniteSets, TLC

VARIABLES
    rev,            \* which revision of the launcher runs
    platform,       \* process.platform
    argv,           \* process.argv.slice(2), as a sequence of flags
    fileConfig,     \* what loadConfig() finds in config.json
    env,            \* process.env
    fsDirs,         \* paths that are directories
    fsFiles,        \* paths that exist and are not directories
    fsLocked,       \* entries of the session tree that rmSync cannot delete
    hostFacts,      \* remaining facts of the host (see HostFacts)
    sessionId,      \* randomHex(8)
    options,        \* parseArgs() result
    pc,             \* position of the parent in main() / the event loop
    handlers,       \* process.on("exit"/"SIGINT"/"SIGTERM") registered
    pending,        \* signals delivered by the OS, handler not yet run
    delivered,      \* every signal the OS delivered to the parent
    sandbox,        \* the backend Sandbox.create() returned
    thisConfig,     \* this.config of the sandbox object
    helpers,        \* helper commands main() ran on the host with execSync
    ideAuthToken,   \* rev B: the token main() staged, or NoToken
    wrapResult,     \* the WrapResult of the last wrap() call
    child,          \* the spawned process
    childCode,      \* the code its 'close' event carries
    childSignalled, \* a signal delivery reached the child too
    cleanupCalls,   \* invocations of the cleanup closure
    cleanupRaised,  \* an invocation of cleanup raised
    exitCode,       \* the parent's exit status
    exitVia         \* the path by which the parent exited

vars == <<rev, platform, argv, fileConfig, env, fsDirs, fsFiles, fsLocked,
          hostFacts, sessionId, options, pc, handlers, pending, delivered,
          sandbox, thisConfig, helpers, ideAuthToken, wrapResult, child, childCode, childSignalled,
          cleanupCalls, cleanupRaised, exitCode, exitVia>>

----------------------------------------------------------------------------
(* Strings and paths *)

RECURSIVE Abs(_)
\* The absolute path with the given segments: Abs(<<"a","b">>) is "/a/b".
Abs(segs) == IF segs = <<>> THEN <<>>
             ELSE <<"/", Head(segs)>> \o Abs(Tail(segs))

\* path.join(p, name) for a normalised p: no second slash after the root
Join(p, name) == IF p = <<"/">> THEN <<"/", name>> ELSE p \o <<"/", name>>

\* String.prototype.startsWith
StartsWith(s, prefix) ==
    /\ Len(prefix) <= Len(s)
    /\ SubSeq(s, 1, Len(prefix)) = prefix

\* p is q or lies below q in the file tree
Under(p, q) == p = q \/ StartsWith(p, q \o <<"/">>)

Unset == <<"<unset>">>      \* process.env.X === undefined
EmptyString == <<>>

\* JavaScript truthiness of an environment value
Truthy(v) == v # Unset /\ v # EmptyString

Get(e, k) == IF k \in DOMAIN e THEN e[k] ELSE Unset

----------------------------------------------------------------------------
(* Utility functions of the launcher *)

TmpRoot == Abs(<<"tmp">>)

\* getTmpDir(): TMPDIR || TEMP || TMP || "/tmp"
getTmpDir(e) ==
    IF Truthy(Get(e, "TMPDIR")) THEN Get(e, "TMPDIR")
    ELSE IF Truthy(Get(e, "TEMP")) THEN Get(e, "TEMP")
    ELSE IF Truthy(Get(e, "TMP")) THEN Get(e, "TMP")
    ELSE TmpRoot

\* pathExists(p): fs.accessSync(p) succeeds
pathExists(p, dirs, files) == p \in dirs \/ p \in files

\* isDirectory(p): fs.statSync(p).isDirectory()
isDirectory(p, dirs) == p \in dirs

\* fs.realpathSync(p): the symbolic links of the host are hostFacts.links, a
\* set of <<link, target>> pairs; at most one link lies on a path.
realpath(p, links) ==
    IF \E l \in links : Under(p, l[1])
    THEN LET l == CHOOSE l \in links : Under(p, l[1])
         IN  l[2] \o SubSeq(p, Len(l[1]) + 1, Len(p))
    ELSE p

\* The commands main() runs on the host with execSync
GitRevParse == "git rev-parse --show-toplevel"
ClaudeHelp == "claude --help"

\* getRepoRoot(projectDir): `git rev-parse --show-toplevel`, else projectDir
getRepoRoot(facts) == IF facts.gitTop # Unset THEN facts.gitTop ELSE facts.cwd

----------------------------------------------------------------------------
(* Configuration *)

SANDBOX_SSH_SOCK == Abs(<<"tmp", "ssh-agent.sock">>)

Fields == {"allowSshAgent", "allowGpgAgent", "allowGitConfig",
           "allowXdgRuntime", "allowIde"}

\* The capability fields a revision knows: rev A has no git/IDE integration.
FieldsOf(r) == IF r = "A"
               THEN {"allowSshAgent", "allowGpgAgent", "allowXdgRuntime"}
               ELSE Fields

CONFIG_DEFAULTS(r) == [f \in FieldsOf(r) |-> FALSE]

\* loadConfig(): { ...CONFIG_DEFAULTS, ...userConfig }.  file is a function
\* from the fields the file defines to their values; a missing or malformed
\* file defines none, which gives the defaults.
loadConfig(r, file) ==
    [f \in FieldsOf(r) \cup DOMAIN file |->
        IF f \in DOMAIN file THEN file[f] ELSE CONFIG_DEFAULTS(r)[f]]

FlagOf(f) == CASE f = "allowSshAgent" -> "--allow-ssh-agent"
               [] f = "allowGpgAgent" -> "--allow-gpg-agent"
               [] f = "allowGitConfig" -> "--allow-git-config"
               [] f = "allowXdgRuntime" -> "--allow-xdg-runtime"
               [] f = "allowIde" -> "--allow-ide"

\* The flags parseArgs() of a revision accepts besides -h / --help
KnownFlags(r) == {FlagOf(f) : f \in FieldsOf(r)}
                 \cup (IF r = "A" THEN {"--dry-run"} ELSE {})

HelpFlags == {"-h", "--help"}

Range(s) == {s[i] : i \in DOMAIN s}

\* Mutant: only the first argument is examined
FirstStop_FirstOnly(r, args) ==
    IF args # <<>> /\ args[1] \notin KnownFlags(r) THEN 1 ELSE 0

\* Index of the first argument at which the parseArgs() loop leaves the
\* process (help or unknown option), 0 when the loop runs to the end.
FirstStop(r, args) ==
    IF \E i \in DOMAIN args : args[i] \notin KnownFlags(r)
    THEN CHOOSE i \in DOMAIN args :
            /\ args[i] \notin KnownFlags(r)
            /\ \A j \in 1..(i - 1) : args[j] \in KnownFlags(r)
    ELSE 0

\* Mutant: the merge prefers a value of the config file to the CLI flag
MergeOptions_FileWins(r, args, file) ==
    LET config == loadConfig(r, file)
        merged == [f \in FieldsOf(r) |->
                     IF f \in DOMAIN file THEN config[f]
                     ELSE FlagOf(f) \in Range(args)]
    IN  [allowSshAgent |-> merged["allowSshAgent"],
         allowGpgAgent |-> merged["allowGpgAgent"],
         allowXdgRuntime |-> merged["allowXdgRuntime"],
         allowGitConfig |-> IF r = "A" THEN FALSE ELSE merged["allowGitConfig"],
         allowIde |-> IF r = "A" THEN FALSE ELSE merged["allowIde"],
         dryRun |-> (r = "A" /\ "--dry-run" \in Range(args))]

\* parseArgs(): CLI overrides > config file > defaults, per field.  A flag
\* can only set its field to true; undefined means "not specified".
MergeOptions(r, args, file) ==
    LET config == loadConfig(r, file)
        merged == [f \in FieldsOf(r) |->
                     IF FlagOf(f) \in Range(args) THEN TRUE ELSE config[f]]
    IN  [allowSshAgent |-> merged["allowSshAgent"],
         allowGpgAgent |-> merged["allowGpgAgent"],
         allowXdgRuntime |-> merged["allowXdgRuntime"],
         \* rev A reads no such option: options.allowGitConfig is undefined
         allowGitConfig |-> IF r = "A" THEN FALSE ELSE merged["allowGitConfig"],
         allowIde |-> IF r = "A" THEN FALSE ELSE merged["allowIde"],
         dryRun |-> (r = "A" /\ "--dry-run" \in Range(args))]

NoOptions == [allowSshAgent |-> FALSE, allowGpgAgent |-> FALSE,
              allowXdgRuntime |-> FALSE, allowGitConfig |-> FALSE,
              allowIde |-> FALSE, dryRun |-> FALSE]

----------------------------------------------------------------------------
(* Session paths *)

HomeOf(e) == Get(e, "HOME")

\* claudeHome = path.join(getTmpDir(), `claudebox-${sessionId}`)
ClaudeHome(e, id) == getTmpDir(e) \o <<"/", "claudebox-", id>>

ClaudeConfig(e) == Join(HomeOf(e), ".claude")
ClaudeJson(e) == Join(HomeOf(e), ".claude.json")
IdeDir(e) == Join(Join(HomeOf(e), ".claude"), "ide")

\* Everything up to the first "/" of s: relPath.split("/")[0]
RECURSIVE SplitFirst(_)
SplitFirst(s) == IF s = <<>> \/ Head(s) = "/" THEN <<>>
                 ELSE <<Head(s)>> \o SplitFirst(Tail(s))

\* Smart filesystem sharing: the shared tree of main()
ShareTree(realRepoRoot, realHome) ==
    IF StartsWith(realRepoRoot, realHome \o <<"/">>)
    THEN LET relPath == SubSeq(realRepoRoot, Len(realHome) + 2, Len(realRepoRoot))
             topDir == SplitFirst(relPath)
         IN  realHome \o <<"/">> \o topDir
    ELSE realRepoRoot

\* this.config before a sandbox object exists
NoConfig ==
    [claudeHome |-> <<>>, claudeConfig |-> <<>>, claudeJson |-> <<>>,
     shareTree |-> <<>>, repoRoot |-> <<>>, allowSshAgent |-> FALSE,
     allowGpgAgent |-> FALSE, allowGitConfig |-> FALSE,
     allowXdgRuntime |-> FALSE, allowIde |-> FALSE]

\* The configuration object main() hands to Sandbox.create()
SandboxConfig(e, id, facts, opts) ==
    [claudeHome |-> ClaudeHome(e, id),
     claudeConfig |-> ClaudeConfig(e),
     claudeJson |-> ClaudeJson(e),
     shareTree |-> ShareTree(realpath(getRepoRoot(facts), facts.links),
                             realpath(HomeOf(e), facts.links)),
     repoRoot |-> getRepoRoot(facts),
     allowSshAgent |-> opts.allowSshAgent,
     allowGpgAgent |-> opts.allowGpgAgent,
     allowGitConfig |-> opts.allowGitConfig,
     allowXdgRuntime |-> opts.allowXdgRuntime,
     allowIde |-> opts.allowIde]

----------------------------------------------------------------------------
(* Linux: BubblewrapSandbox.wrap *)

Tok(a) == <<a>>

\* const xdgRuntimeDir = process.env.XDG_RUNTIME_DIR || `/run/user/${process.getuid()}`
XdgRuntimeDir(e) ==
    IF Truthy(Get(e, "XDG_RUNTIME_DIR")) THEN Get(e, "XDG_RUNTIME_DIR")
    ELSE Abs(<<"run", "user", "uid">>)

RoBindTry(p) == <<Tok("--ro-bind-try"), p, p>>
RoBind(src, dst) == <<Tok("--ro-bind"), src, dst>>
Bind(src, dst) == <<Tok("--bind"), src, dst>>
Setenv(name, value) == <<Tok("--setenv"), Tok(name), value>>

\* Basic filesystem, selective /run mounts, Nix store and daemon socket
BaseArgs ==
    <<Tok("--dev"), Abs(<<"dev">>), Tok("--proc"), Abs(<<"proc">>)>>
    \o RoBindTry(Abs(<<"usr">>))
    \o RoBindTry(Abs(<<"bin">>))
    \o RoBindTry(Abs(<<"lib">>))
    \o RoBindTry(Abs(<<"lib64">>))
    \o RoBind(Abs(<<"etc">>), Abs(<<"etc">>))
    \o RoBindTry(Abs(<<"run", "systemd", "resolve">>))
    \o RoBindTry(Abs(<<"run", "current-system">>))
    \o RoBindTry(Abs(<<"run", "booted-system">>))
    \o RoBindTry(Abs(<<"run", "opengl-driver">>))
    \o RoBindTry(Abs(<<"run", "opengl-driver-32">>))
    \o RoBindTry(Abs(<<"run", "nixos">>))
    \o RoBindTry(Abs(<<"run", "wrappers">>))
    \o RoBind(Abs(<<"nix">>), Abs(<<"nix">>))
    \o Bind(Abs(<<"nix", "var", "nix", "daemon-socket">>),
            Abs(<<"nix", "var", "nix", "daemon-socket">>))

\* Isolated temp filesystem and isolated home with Claude config mounted
HomeArgs(cfg, e) ==
    <<Tok("--tmpfs"), TmpRoot>>
    \o Bind(cfg.claudeHome, HomeOf(e))
    \o Bind(cfg.claudeConfig, Join(HomeOf(e), ".claude"))
    \o Bind(cfg.claudeJson, Join(HomeOf(e), ".claude.json"))

\* Namespace isolation with network sharing, and the environment variables
NamespaceArgs(e) ==
    <<Tok("--unshare-all"), Tok("--share-net")>>
    \o Setenv("HOME", HomeOf(e))
    \o Setenv("USER", Get(e, "USER"))
    \o Setenv("PATH", Get(e, "PATH"))
    \o Setenv("TMPDIR", TmpRoot)
    \o Setenv("TEMPDIR", TmpRoot)
    \o Setenv("TEMP", TmpRoot)
    \o Setenv("TMP", TmpRoot)

\* The read-only bind of the shared tree and the read-write bind of the project
ProjectArgs(cfg) ==
    (IF cfg.shareTree # cfg.repoRoot
     THEN RoBind(cfg.shareTree, cfg.shareTree) ELSE <<>>)
    \o Bind(cfg.repoRoot, cfg.repoRoot)

\* The script handed to `bash -c`
ScriptArgs(script) == <<Tok("bash"), Tok("-c"), script>>

SshConfigPath == Abs(<<"etc", "ssh", "ssh_config">>)

\* A line of ssh_config matches /^Include\s+\/nix\/store\/.*$/
IsNixStoreInclude(line) ==
    /\ Len(line) >= 2
    /\ line[1] = "Include"
    /\ line[2] = " "
    /\ \E k \in 3..Len(line) :
          /\ \A j \in 3..(k - 1) : line[j] = " "
          /\ StartsWith(SubSeq(line, k, Len(line)), <<"/", "nix", "/", "store", "/">>)

\* content.replace(/^Include\s+\/nix\/store\/.*$/gm, "")
SanitizeSshConfig(content) ==
    [i \in DOMAIN content |->
        IF IsNixStoreInclude(content[i]) THEN <<>> ELSE content[i]]

\* rev A, lines 247-265: the sanitized copy of the system ssh_config.
\* Returns the arguments pushed and the files written; every error is caught.
SshConfigOverride(cfg, dirs, files, facts) ==
    IF /\ pathExists(SshConfigPath, dirs, files)
       /\ facts.sshConfigReadable
       /\ cfg.claudeHome \in dirs
    THEN LET realSshConfig == realpath(SshConfigPath, facts.links)
             sanitizedPath == Join(cfg.claudeHome, "ssh_config")
         IN  [args |-> RoBind(sanitizedPath, realSshConfig),
              written |-> {[path |-> sanitizedPath,
                            content |-> SanitizeSshConfig(facts.sshConfigContent)]}]
    ELSE [args |-> <<>>, written |-> {}]

\* The environment without one variable: delete env.SSH_AUTH_SOCK
Without(e, k) == [n \in DOMAIN e \ {k} |-> e[n]]

\* Mutant: the GPG socket directory bound in addition to the runtime directory
RuntimeArgsA_Additive(cfg, e, dirs, files) ==
    (IF cfg.allowXdgRuntime /\ isDirectory(XdgRuntimeDir(e), dirs)
     THEN RoBind(XdgRuntimeDir(e), XdgRuntimeDir(e))
          \o Setenv("XDG_RUNTIME_DIR", XdgRuntimeDir(e))
     ELSE <<>>)
    \o (IF cfg.allowGpgAgent /\ isDirectory(Join(XdgRuntimeDir(e), "gnupg"), dirs)
        THEN RoBind(Join(XdgRuntimeDir(e), "gnupg"), Join(XdgRuntimeDir(e), "gnupg"))
        ELSE <<>>)
    \o (IF /\ cfg.allowSshAgent
           /\ Truthy(Get(e, "SSH_AUTH_SOCK"))
           /\ pathExists(Get(e, "SSH_AUTH_SOCK"), dirs, files)
        THEN Bind(Get(e, "SSH_AUTH_SOCK"), SANDBOX_SSH_SOCK)
             \o Setenv("SSH_AUTH_SOCK", SANDBOX_SSH_SOCK)
        ELSE <<>>)

\* rev A: XDG runtime directory access, then the SSH agent socket
\* (independent of XDG runtime) rebound to SANDBOX_SSH_SOCK
RuntimeArgsA(cfg, e, dirs, files) ==
    (IF cfg.allowXdgRuntime
     THEN IF isDirectory(XdgRuntimeDir(e), dirs)
          THEN RoBind(XdgRuntimeDir(e), XdgRuntimeDir(e))
               \o Setenv("XDG_RUNTIME_DIR", XdgRuntimeDir(e))
          ELSE <<>>
     ELSE IF cfg.allowGpgAgent /\ isDirectory(Join(XdgRuntimeDir(e), "gnupg"), dirs)
          THEN RoBind(Join(XdgRuntimeDir(e), "gnupg"), Join(XdgRuntimeDir(e), "gnupg"))
          ELSE <<>>)
    \o (IF /\ cfg.allowSshAgent
           /\ Truthy(Get(e, "SSH_AUTH_SOCK"))
           /\ pathExists(Get(e, "SSH_AUTH_SOCK"), dirs, files)
        THEN Bind(Get(e, "SSH_AUTH_SOCK"), SANDBOX_SSH_SOCK)
             \o Setenv("SSH_AUTH_SOCK", SANDBOX_SSH_SOCK)
        ELSE <<>>)

\* The environment rev A hands to bwrap
EnvA(e) == Without(e, "SSH_AUTH_SOCK")

\* Mutant: the ssh_config override pushed before the basic filesystem
BubblewrapWrapA_OverrideFirst(cfg, script, e, dirs, files, facts) ==
    LET ssh == SshConfigOverride(cfg, dirs, files, facts)
    IN  [threw |-> FALSE,
         cmd |-> Tok("bwrap"),
         args |-> ssh.args \o BaseArgs \o HomeArgs(cfg, e) \o NamespaceArgs(e)
                  \o ProjectArgs(cfg) \o RuntimeArgsA(cfg, e, dirs, files)
                  \o ScriptArgs(script),
         env |-> EnvA(e),
         written |-> ssh.written]

\* BubblewrapSandbox.wrap(script) of src/src/claudebox.js
BubblewrapWrapA(cfg, script, e, dirs, files, facts) ==
    LET ssh == SshConfigOverride(cfg, dirs, files, facts)
    IN  [threw |-> FALSE,
         cmd |-> Tok("bwrap"),
         args |-> BaseArgs \o ssh.args \o HomeArgs(cfg, e) \o NamespaceArgs(e)
                  \o ProjectArgs(cfg) \o RuntimeArgsA(cfg, e, dirs, files)
                  \o ScriptArgs(script),
         env |-> EnvA(e),
         written |-> ssh.written]

\* rev B: git configuration (read-only, opt-in)
GitArgs(cfg, e, dirs, files) ==
    IF cfg.allowGitConfig
    THEN (IF pathExists(Join(HomeOf(e), ".gitconfig"), dirs, files)
          THEN RoBind(Join(HomeOf(e), ".gitconfig"), Join(HomeOf(e), ".gitconfig"))
          ELSE <<>>)
         \o (IF isDirectory(Join(Join(HomeOf(e), ".config"), "git"), dirs)
             THEN RoBind(Join(Join(HomeOf(e), ".config"), "git"),
                         Join(Join(HomeOf(e), ".config"), "git"))
             ELSE <<>>)
    ELSE <<>>

\* rev B: XDG runtime directory access, else selective socket access
RuntimeArgsB(cfg, e, dirs, files) ==
    IF cfg.allowXdgRuntime
    THEN IF isDirectory(XdgRuntimeDir(e), dirs)
         THEN RoBind(XdgRuntimeDir(e), XdgRuntimeDir(e))
              \o Setenv("XDG_RUNTIME_DIR", XdgRuntimeDir(e))
         ELSE <<>>
    ELSE (IF /\ cfg.allowSshAgent
             /\ Truthy(Get(e, "SSH_AUTH_SOCK"))
             /\ pathExists(Get(e, "SSH_AUTH_SOCK"), dirs, files)
          THEN RoBind(Get(e, "SSH_AUTH_SOCK"), Get(e, "SSH_AUTH_SOCK"))
               \o Setenv("SSH_AUTH_SOCK", Get(e, "SSH_AUTH_SOCK"))
          ELSE <<>>)
         \o (IF cfg.allowGpgAgent /\ isDirectory(Join(XdgRuntimeDir(e), "gnupg"), dirs)
             THEN RoBind(Join(XdgRuntimeDir(e), "gnupg"), Join(XdgRuntimeDir(e), "gnupg"))
             ELSE <<>>)

\* rev B: IDE integration (opt-in), the lock-file directory bound read-only
IdeArgs(cfg, e, dirs) ==
    IF cfg.allowIde /\ isDirectory(IdeDir(e), dirs)
    THEN RoBind(IdeDir(e), IdeDir(e))
    ELSE <<>>

\* The environment rev B hands to bwrap: process.env
EnvB(e) == e

\* BubblewrapSandbox.wrap(script) of src/unnamed/part_001
BubblewrapWrapB(cfg, script, e, dirs, files, facts) ==
    [threw |-> FALSE,
     cmd |-> Tok("bwrap"),
     args |-> BaseArgs \o HomeArgs(cfg, e) \o GitArgs(cfg, e, dirs, files)
              \o NamespaceArgs(e) \o ProjectArgs(cfg)
              \o RuntimeArgsB(cfg, e, dirs, files) \o IdeArgs(cfg, e, dirs)
              \o ScriptArgs(script),
     env |-> EnvB(e),
     written |-> {}]

----------------------------------------------------------------------------
(* macOS: SeatbeltSandbox.wrap (the same in both revisions) *)

Threw == [threw |-> TRUE, cmd |-> <<>>, args |-> <<>>, env |-> <<>>, written |-> {}]

\* Mutant: the profile is used without the check
SeatbeltProfileReadable_Unchecked(e, dirs, files) == TRUE

\* Load base policy from environment: the profile must be set and exist;
\* fs.readFileSync of a directory throws as well.
SeatbeltProfileReadable(e, dirs, files) ==
    /\ Truthy(Get(e, "CLAUDEBOX_SEATBELT_PROFILE"))
    /\ pathExists(Get(e, "CLAUDEBOX_SEATBELT_PROFILE"), dirs, files)
    /\ Get(e, "CLAUDEBOX_SEATBELT_PROFILE") \notin dirs

\* Mutant: the SLASH_TMP clause pushed unconditionally
WritablePaths_Always(canonicalTmpdir, canonicalSlashTmp) ==
    <<"(subpath (param \"PROJECT_DIR\"))", "(subpath (param \"TMPDIR\"))",
      "(subpath (param \"SLASH_TMP\"))">>

\* Build dynamic policy: the writable clauses
WritablePaths(canonicalTmpdir, canonicalSlashTmp) ==
    <<"(subpath (param \"PROJECT_DIR\"))", "(subpath (param \"TMPDIR\"))">>
    \o (IF canonicalTmpdir # canonicalSlashTmp
        THEN <<"(subpath (param \"SLASH_TMP\"))">> ELSE <<>>)

\* fullPolicy = basePolicy + "\n" + dynamicPolicy
FullPolicy(canonicalTmpdir, canonicalSlashTmp) ==
    <<"<basePolicy>", "(allow file-read*)", "(allow file-write*">>
    \o WritablePaths(canonicalTmpdir, canonicalSlashTmp)
    \o <<")", "(allow network-outbound)", "(allow network-inbound)",
         "(allow system-socket)">>

\* The environment the profile backend hands to sandbox-exec: process.env
EnvSeatbelt(e) == e

SeatbeltWrap(cfg, script, e, dirs, files, facts) ==
    IF ~SeatbeltProfileReadable(e, dirs, files) THEN Threw
    ELSE LET canonicalRepoRoot == realpath(cfg.repoRoot, facts.links)
             canonicalTmpdir == realpath(getTmpDir(e), facts.links)
             canonicalSlashTmp == realpath(TmpRoot, facts.links)
         IN  [threw |-> FALSE,
              cmd |-> Abs(<<"usr", "bin", "sandbox-exec">>),
              args |-> <<Tok("-p"), FullPolicy(canonicalTmpdir, canonicalSlashTmp),
                         <<"-DPROJECT_DIR=">> \o canonicalRepoRoot,
                         <<"-DTMPDIR=">> \o canonicalTmpdir>>
                       \o (IF canonicalTmpdir # canonicalSlashTmp
                           THEN << <<"-DSLASH_TMP=">> \o canonicalSlashTmp >>
                           ELSE <<>>)
                       \o <<Tok("--")>> \o ScriptArgs(script),
              env |-> EnvSeatbelt(e),
              written |-> {}]

----------------------------------------------------------------------------
(* Sandbox interface *)

\* Mutant: any other platform gets the namespace backend
SandboxCreate_Fallback(plat) == IF plat = "darwin" THEN "seatbelt" ELSE "bwrap"

\* Sandbox.create(config): the backend of the platform, "none" when it throws
SandboxCreate(plat) ==
    CASE plat = "linux" -> "bwrap"
      [] plat = "darwin" -> "seatbelt"
      [] OTHER -> "none"

\* sandbox.wrap(script), by the class of the sandbox object and the revision
Wrap(kind, r, cfg, script, e, dirs, files, facts) ==
    IF kind = "seatbelt" THEN SeatbeltWrap(cfg, script, e, dirs, files, facts)
    ELSE IF r = "A" THEN BubblewrapWrapA(cfg, script, e, dirs, files, facts)
    ELSE BubblewrapWrapB(cfg, script, e, dirs, files, facts)

NoToken == <<"<null>">>

\* Build script: with an IDE token (rev B) the script opens the token file
\* on fd 3 and deletes it before it starts claude
Script(e, facts, token) ==
    (IF token # NoToken
     THEN <<"exec 3< '">> \o HomeOf(e) \o <<"/.ide-auth-token'", "rm -f '">>
          \o HomeOf(e) \o <<"/.ide-auth-token'",
                            "export CLAUDE_CODE_WEBSOCKET_AUTH_FILE_DESCRIPTOR=3">>
     ELSE <<>>)
    \o <<"cd '">> \o facts.cwd \o <<"'", "exec claude --dangerously-skip-permissions">>

----------------------------------------------------------------------------
(* rev B: readIdeAuthToken *)

\* The lock files of ~/.claude/ide are hostFacts.ideLocks, in readdir order:
\* records [name, mtime, authToken]; authToken is NoToken when the file does
\* not parse or carries no (truthy) authToken.
IsPort(a) == a \in {"1", "2", "3"}

\* /^\d+(\.lock)?$/
IsLockName(name) ==
    \/ Len(name) = 1 /\ IsPort(name[1])
    \/ Len(name) = 2 /\ IsPort(name[1]) /\ name[2] = ".lock"

\* The token of the lock file called name, NoToken when there is none
TokenOf(locks, name) ==
    IF \E i \in DOMAIN locks : locks[i].name = name
    THEN locks[CHOOSE i \in DOMAIN locks : locks[i].name = name].authToken
    ELSE NoToken

\* Mutant: the sort ascending, (a, b) => a.mtime - b.mtime
NewestToken_Oldest(locks) ==
    LET cand == {i \in DOMAIN locks :
                    IsLockName(locks[i].name) /\ locks[i].authToken # NoToken}
    IN  IF cand = {} THEN NoToken
        ELSE locks[CHOOSE i \in cand : \A j \in cand :
                      \/ locks[i].mtime < locks[j].mtime
                      \/ locks[i].mtime = locks[j].mtime /\ i <= j].authToken

\* .sort((a, b) => b.mtime - a.mtime), then the first file with a token:
\* the newest such file, the earliest in readdir order among equals
NewestToken(locks) ==
    LET cand == {i \in DOMAIN locks :
                    IsLockName(locks[i].name) /\ locks[i].authToken # NoToken}
    IN  IF cand = {} THEN NoToken
        ELSE locks[CHOOSE i \in cand : \A j \in cand :
                      \/ locks[i].mtime > locks[j].mtime
                      \/ locks[i].mtime = locks[j].mtime /\ i <= j].authToken

readIdeAuthToken(e, dirs, facts) ==
    IF ~isDirectory(IdeDir(e), dirs) THEN NoToken
    ELSE LET ssePort == Get(e, "CLAUDE_CODE_SSE_PORT")
             hinted == Truthy(ssePort) /\ Len(ssePort) = 1 /\ IsPort(ssePort[1])
         IN  IF hinted /\ TokenOf(facts.ideLocks, ssePort \o <<".lock">>) # NoToken
             THEN TokenOf(facts.ideLocks, ssePort \o <<".lock">>)
             ELSE IF hinted /\ TokenOf(facts.ideLocks, ssePort) # NoToken
             THEN TokenOf(facts.ideLocks, ssePort)
             ELSE NewestToken(facts.ideLocks)

----------------------------------------------------------------------------
(* Session cleanup *)

\* fs.rmSync(target, { recursive: true, force: true }): the possible results.
\* force: a missing target is no error.  An entry of `locked`, and every
\* directory above it, cannot be deleted: rmSync then throws after it removed
\* some of the other entries (a directory only together with its content).
RmSync(dirs, files, locked, target) ==
    IF target \notin dirs \cup files
    THEN {[dirs |-> dirs, files |-> files, threw |-> FALSE]}
    ELSE LET tree == {p \in dirs \cup files : Under(p, target)}
             removable == {p \in tree : \A l \in locked : ~Under(l, p)}
         IN  IF removable = tree
             THEN {[dirs |-> dirs \ tree, files |-> files \ tree, threw |-> FALSE]}
             ELSE {[dirs |-> dirs \ R, files |-> files \ R, threw |-> TRUE] :
                     R \in {X \in SUBSET removable :
                              \A p \in X : \A q \in tree : Under(q, p) => q \in X}}

\* Mutant: the closure without its try/catch
Cleanup_NoCatch(dirs, files, locked, target) ==
    {[dirs |-> o.dirs, files |-> o.files, raised |-> o.threw] :
        o \in RmSync(dirs, files, locked, target)}

\* const cleanup = () => { try { fs.rmSync(claudeHome, ...) } catch {} }
Cleanup(dirs, files, locked, target) ==
    {[dirs |-> o.dirs, files |-> o.files, raised |-> FALSE] :
        o \in RmSync(dirs, files, locked, target)}

----------------------------------------------------------------------------
(* The host: paths and bounded inputs *)

HomePath == Abs(<<"home", "u">>)
SshDir == Join(HomePath, ".ssh")
GitConfigFile == Join(HomePath, ".gitconfig")
GitConfigDir == Join(Join(HomePath, ".config"), "git")
ProfilePath == Abs(<<"share", "seatbelt.sbpl">>)
DefaultXdg == Abs(<<"run", "user", "uid">>)
SockPath == Join(DefaultXdg, "ssh.sock")
PrivateTmp == Abs(<<"private", "tmp">>)
NixSshConfig == Abs(<<"nix", "store", "etc-ssh_config">>)

\* process.env with the given optional variables (Unset leaves one out)
MkEnv(sock, xdg, tmpdir, profile, port) ==
    LET all == [HOME |-> HomePath, USER |-> <<"u">>, PATH |-> Abs(<<"bin">>),
                SSH_AUTH_SOCK |-> sock, XDG_RUNTIME_DIR |-> xdg,
                TMPDIR |-> tmpdir, CLAUDEBOX_SEATBELT_PROFILE |-> profile,
                CLAUDE_CODE_SSE_PORT |-> port]
    IN  [k \in {n \in DOMAIN all : all[n] # Unset} |-> all[k]]

\* Bounds of the model
MaxArgs == 1
MaxChildCode == 2

\* Exit statuses of the launcher
ExitOk == 0
ExitError == 1
ExitSigint == 130
ExitSigterm == 143
UncaughtExit == ExitError   \* node ends with status 1 on an uncaught exception

NullCode == 0 - 1           \* the close event's code of a child killed by a signal
ChildCodes == (0..MaxChildCode) \cup {NullCode}
\* randomHex(8): the identifiers the runs of the model draw
SessionIdValues == {"0a1b2c3d", "4e5f6a7b"}
Signals == {"SIGINT", "SIGTERM"}
\* Mutant: the two statuses exchanged
ExitOf_Swapped(sig) == IF sig = "SIGINT" THEN ExitSigterm ELSE ExitSigint
ExitOf(sig) == IF sig = "SIGINT" THEN ExitSigint ELSE ExitSigterm

RECURSIVE SeqsUpTo(_, _)
\* All sequences over S of length at most n
SeqsUpTo(S, n) ==
    IF n = 0 THEN {<<>>}
    ELSE LET shorter == SeqsUpTo(S, n - 1)
         IN  shorter \cup {Append(q, x) : q \in shorter, x \in S}

LifecycleFlags == {"--dry-run", "--allow-ssh-agent", "--allow-ide", "--bogus", "--help"}

SshConfigLines == << <<"Include", " ", "/", "nix", "/", "store", "/", "x">>,
                     <<"Host", " ", "*">> >>

HostFacts(cwd, gitTop, links, sshReadable, locks, tmpWritable, cmdAvailable) ==
    [cwd |-> cwd, gitTop |-> gitTop, links |-> links,
     sshConfigReadable |-> sshReadable, sshConfigContent |-> SshConfigLines,
     ideLocks |-> locks, tmpWritable |-> tmpWritable, cmdAvailable |-> cmdAvailable]

ProjectUnderHome == Abs(<<"home", "u", "work", "repo">>)
ProjectElsewhere == Abs(<<"srv", "repo">>)

OneLock == << [name |-> <<"1", ".lock">>, mtime |-> 1, authToken |-> <<"token1">>] >>

\* The state of every run before main() starts
InitRun ==
    /\ sessionId = "none"
    /\ options = NoOptions
    /\ pc = "start"
    /\ handlers = FALSE
    /\ pending = {}
    /\ delivered = {}
    /\ sandbox = "none"
    /\ thisConfig = NoConfig
    /\ helpers = {}
    /\ ideAuthToken = NoToken
    /\ wrapResult = Threw
    /\ child = "none"
    /\ childCode = NullCode
    /\ childSignalled = FALSE
    /\ cleanupCalls = 0
    /\ cleanupRaised = FALSE
    /\ exitCode = NullCode
    /\ exitVia = "running"
    /\ fsLocked = {}

\* Runs of the whole launcher on a host with ~/.ssh, an ssh agent and one
\* IDE lock file
Init ==
    /\ rev \in {"A", "B"}
    /\ platform \in {"linux", "darwin", "win32"}
    /\ argv \in SeqsUpTo(LifecycleFlags, MaxArgs)
    /\ fileConfig = <<>>
    /\ \E profile \in {Unset, ProfilePath} :
          env = MkEnv(SockPath, Unset, Unset, profile, Unset)
    /\ \E profileExists \in BOOLEAN :
          /\ fsDirs = {HomePath, SshDir, DefaultXdg, IdeDir(env)}
          /\ fsFiles = {SockPath, SshConfigPath, Join(SshDir, "known_hosts"),
                        Join(SshDir, "config"), SshDir \o <<"/", "id">>,
                        SshDir \o <<"/", "id", ".pub">>}
                       \cup (IF profileExists THEN {ProfilePath} ELSE {})
    /\ \E tmpWritable \in BOOLEAN, cmdAvailable \in BOOLEAN :
          hostFacts = HostFacts(ProjectUnderHome, Unset, {}, TRUE, OneLock,
                                tmpWritable, cmdAvailable)
    /\ InitRun

----------------------------------------------------------------------------
(* The parent process: main() and the event loop *)

inputVars == <<rev, platform, argv, fileConfig, env, hostFacts>>
childVars == <<child, childCode, childSignalled>>
sigVars == <<pending, delivered>>

claudeHome == ClaudeHome(env, sessionId)
AuthFile == Join(claudeHome, ".ide-auth-token")

\* The process ends: the 'exit' event runs the cleanup closure when it is
\* registered.  d, f: the file system at that point; calls, raised: the
\* cleanup invocations so far.
Exit(code, via, d, f, calls, raised) ==
    /\ pc' = "exited"
    /\ exitCode' = code
    /\ exitVia' = via
    /\ IF handlers
       THEN \E o \in Cleanup(d, f, fsLocked, claudeHome) :
               /\ fsDirs' = o.dirs
               /\ fsFiles' = o.files
               /\ cleanupCalls' = calls + 1
               /\ cleanupRaised' = (raised \/ o.raised)
       ELSE /\ fsDirs' = d
            /\ fsFiles' = f
            /\ cleanupCalls' = calls
            /\ cleanupRaised' = raised

\* Mutant: the handler forgets its own cleanup() call and only exits
CleanupThenExit_HookOnly(code, via, d, f) ==
    Exit(code, via, d, f, cleanupCalls, cleanupRaised)

\* cleanup(); process.exit(code): the closure called directly, then the exit
CleanupThenExit(code, via, d, f) ==
    \E o \in Cleanup(d, f, fsLocked, claudeHome) :
        Exit(code, via, o.dirs, o.files, cleanupCalls + 1, cleanupRaised \/ o.raised)

\* process.exit(code), or an uncaught exception, with the file system as it is
ExitNow(code, via) == Exit(code, via, fsDirs, fsFiles, cleanupCalls, cleanupRaised)

\* parseArgs(args): help and an unknown option leave the process at once
ParseArgs ==
    /\ pc = "start"
    /\ LET stop == FirstStop(rev, argv)
       IN  IF stop = 0
           THEN /\ options' = MergeOptions(rev, argv, fileConfig)
                /\ pc' = "parsed"
                /\ UNCHANGED <<fsDirs, fsFiles, cleanupCalls, cleanupRaised,
                               exitCode, exitVia>>
           ELSE /\ IF argv[stop] \in HelpFlags
                   THEN ExitNow(ExitOk, "help")
                   ELSE ExitNow(ExitError, "usage")
                /\ UNCHANGED options
    /\ UNCHANGED <<inputVars, childVars, sigVars, fsLocked, sessionId, handlers,
                   sandbox, thisConfig, helpers, ideAuthToken, wrapResult>>

\* Session setup: the session identifier, the cleanup closure and the
\* 'exit', SIGINT and SIGTERM handlers
Register ==
    /\ pc = "parsed"
    /\ \E id \in SessionIdValues : sessionId' = id
    /\ helpers' = helpers \cup {GitRevParse}
    /\ handlers' = TRUE
    /\ pc' = "registered"
    /\ UNCHANGED <<inputVars, childVars, sigVars, fsDirs, fsFiles, fsLocked,
                   options, sandbox, thisConfig, ideAuthToken, wrapResult, cleanupCalls,
                   cleanupRaised, exitCode, exitVia>>

\* fs.mkdirSync(claudeHome, { recursive: true }): an existing directory is
\* no error; a temp directory that cannot be written makes it throw
Mkdir ==
    /\ pc = "registered"
    /\ IF hostFacts.tmpWritable
       THEN /\ fsDirs' = fsDirs \cup {claudeHome}
            /\ pc' = "created"
            /\ UNCHANGED <<fsFiles, cleanupCalls, cleanupRaised, exitCode, exitVia>>
       ELSE ExitNow(UncaughtExit, "uncaught")
    /\ UNCHANGED <<inputVars, childVars, sigVars, fsLocked, sessionId, options,
                   handlers, sandbox, thisConfig, helpers, ideAuthToken, wrapResult>>

\* The entries of a directory: fs.readdirSync(dir), as paths
Children(dir, dirs, files) ==
    {p \in dirs \cup files :
        /\ StartsWith(p, dir \o <<"/">>)
        /\ \A i \in (Len(dir) + 2)..Len(p) : p[i] # "/"}

\* file.endsWith(".pub")
EndsWithPub(p) == Len(p) > 0 /\ p[Len(p)] = ".pub"

\* Mutant: the copies go to a fixed directory of the temp directory
Staged_Outside(p, home) ==
    Join(TmpRoot, "claudebox-ssh") \o SubSeq(p, Len(SshDir) + 1, Len(p))

\* The path of a host file of ~/.ssh inside the sandbox's ~/.ssh
Staged(p, home) == Join(home, ".ssh") \o SubSeq(p, Len(SshDir) + 1, Len(p))

\* Mutant: every file of ~/.ssh is copied, whatever its name
SshStaging_CopiesAll(opts, home, dirs, files) ==
    IF opts.allowSshAgent /\ isDirectory(SshDir, dirs)
    THEN [dirs |-> {Join(home, ".ssh"), Join(Join(home, ".ssh"), "controlmaster")},
          files |-> {Staged(q, home) : q \in Children(SshDir, dirs, files) \cap files}]
    ELSE [dirs |-> {}, files |-> {}]

\* rev A: copy SSH public keys, known_hosts and the rewritten config into
\* the sandbox home.  The directories and files it creates.
SshStaging(opts, home, dirs, files) ==
    IF opts.allowSshAgent /\ isDirectory(SshDir, dirs)
    THEN [dirs |-> {Join(home, ".ssh"), Join(Join(home, ".ssh"), "controlmaster")},
          files |-> {Staged(p, home) : p \in
                        {q \in Children(SshDir, dirs, files) :
                            \/ q = Join(SshDir, "known_hosts")
                            \/ q = Join(SshDir, "config")
                            \/ EndsWithPub(q)}}]
    ELSE [dirs |-> {}, files |-> {}]

\* rev B: the parent directory in the isolated home for the git bind mount
GitStaging(opts, home, dirs) ==
    IF opts.allowGitConfig /\ isDirectory(GitConfigDir, dirs)
    THEN [dirs |-> {Join(home, ".config")}, files |-> {}]
    ELSE [dirs |-> {}, files |-> {}]

\* main() from the staging of credentials to the shared tree: staging, the
\* Claude config directory, `claude --help` when ~/.claude.json is missing
Stage ==
    /\ pc = "created"
    /\ LET st == IF rev = "A" THEN SshStaging(options, claudeHome, fsDirs, fsFiles)
                 ELSE GitStaging(options, claudeHome, fsDirs)
       IN  IF rev = "A" /\ st.dirs # {} /\ Join(claudeHome, ".ssh") \in fsDirs
           THEN \* fs.mkdirSync(sandboxSshDir) of an existing directory throws
                /\ ExitNow(UncaughtExit, "uncaught")
                /\ UNCHANGED helpers
           ELSE /\ fsDirs' = fsDirs \cup st.dirs \cup {ClaudeConfig(env)}
                /\ \E initialised \in BOOLEAN :
                      fsFiles' = fsFiles \cup st.files
                                 \cup (IF initialised /\ ~pathExists(ClaudeJson(env), fsDirs, fsFiles)
                                       THEN {ClaudeJson(env)} ELSE {})
                /\ helpers' = IF pathExists(ClaudeJson(env), fsDirs, fsFiles)
                               THEN helpers ELSE helpers \cup {ClaudeHelp}
                /\ pc' = "staged"
                /\ UNCHANGED <<cleanupCalls, cleanupRaised, exitCode, exitVia>>
    /\ UNCHANGED <<inputVars, childVars, sigVars, fsLocked, sessionId, options,
                   handlers, sandbox, thisConfig, ideAuthToken, wrapResult>>

\* Create sandbox; rev B then stages the IDE auth token
CreateSandbox ==
    /\ pc = "staged"
    /\ sandbox' = SandboxCreate(platform)
    /\ IF sandbox' = "none"
       THEN /\ ExitNow(ExitError, "error")
            /\ UNCHANGED <<thisConfig, ideAuthToken>>
       ELSE /\ thisConfig' = SandboxConfig(env, sessionId, hostFacts, options)
            /\ ideAuthToken' = IF rev = "B" /\ options.allowIde
                               THEN readIdeAuthToken(env, fsDirs, hostFacts)
                               ELSE NoToken
            /\ fsFiles' = fsFiles \cup (IF ideAuthToken' # NoToken THEN {AuthFile} ELSE {})
            /\ pc' = "ready"
            /\ UNCHANGED <<fsDirs, cleanupCalls, cleanupRaised, exitCode, exitVia>>
    /\ UNCHANGED <<inputVars, childVars, sigVars, fsLocked, sessionId, options,
                   handlers, helpers, wrapResult>>

\* The files a wrap() call wrote
WrittenPaths(r) == {w.path : w \in r.written}

\* Mutant: the dry run falls through to the spawn before it exits
DryRun_Spawns ==
    /\ pc = "ready"
    /\ options.dryRun
    /\ LET r == Wrap(sandbox, rev, thisConfig,
                     Script(env, hostFacts, ideAuthToken), env, fsDirs, fsFiles, hostFacts)
       IN  /\ wrapResult' = r
           /\ IF r.threw
              THEN /\ ExitNow(UncaughtExit, "uncaught")
                   /\ UNCHANGED child
              ELSE /\ CleanupThenExit(ExitOk, "dryRun", fsDirs, fsFiles \cup WrittenPaths(r))
                   /\ child' = "running"
    /\ UNCHANGED <<inputVars, childCode, childSignalled, sigVars, fsLocked, sessionId,
                   options, handlers, sandbox, thisConfig, helpers, ideAuthToken>>

\* sandbox.dryRun(script); cleanup(); process.exit(0) -- rev A only.
\* wrap() throwing is an uncaught exception.
DryRun ==
    /\ pc = "ready"
    /\ options.dryRun
    /\ LET r == Wrap(sandbox, rev, thisConfig,
                     Script(env, hostFacts, ideAuthToken), env, fsDirs, fsFiles, hostFacts)
       IN  /\ wrapResult' = r
           /\ IF r.threw
              THEN ExitNow(UncaughtExit, "uncaught")
              ELSE CleanupThenExit(ExitOk, "dryRun", fsDirs, fsFiles \cup WrittenPaths(r))
    /\ UNCHANGED <<inputVars, childVars, sigVars, fsLocked, sessionId, options,
                   handlers, sandbox, thisConfig, helpers, ideAuthToken>>

\* const child = sandbox.spawn(script); child.on("close", ...): main() returns
\* to the event loop.  A command that cannot be started gives an 'error' event.
Spawn ==
    /\ pc = "ready"
    /\ ~options.dryRun
    /\ LET r == Wrap(sandbox, rev, thisConfig,
                     Script(env, hostFacts, ideAuthToken), env, fsDirs, fsFiles, hostFacts)
       IN  /\ wrapResult' = r
           /\ IF r.threw
              THEN /\ ExitNow(UncaughtExit, "uncaught")
                   /\ UNCHANGED child
              ELSE /\ fsFiles' = fsFiles \cup WrittenPaths(r)
                   /\ child' = IF hostFacts.cmdAvailable THEN "running" ELSE "failed"
                   /\ pc' = "waiting"
                   /\ UNCHANGED <<fsDirs, cleanupCalls, cleanupRaised, exitCode, exitVia>>
    /\ UNCHANGED <<inputVars, childCode, childSignalled, sigVars, fsLocked,
                   sessionId, options, handlers, sandbox, thisConfig, helpers, ideAuthToken>>

\* process.on(sig, () => { cleanup(); process.exit(code) }): the handler runs
\* from the event loop, once main() has returned
OnSignal(sig) ==
    /\ pc = "waiting"
    /\ sig \in pending
    /\ CleanupThenExit(ExitOf(sig), sig, fsDirs, fsFiles)
    /\ pending' = pending \ {sig}
    /\ UNCHANGED <<inputVars, childVars, delivered, fsLocked, sessionId, options,
                   handlers, sandbox, thisConfig, helpers, ideAuthToken, wrapResult>>

\* Mutant: process.exit(code) without the default
OrZero_NoDefault(code) == code

\* code || 0
OrZero(code) == IF code = NullCode \/ code = 0 THEN 0 ELSE code

\* child.on("close", (code) => process.exit(code || 0))
OnClose ==
    /\ pc = "waiting"
    /\ child = "closed"
    /\ ExitNow(OrZero(childCode), "close")
    /\ UNCHANGED <<inputVars, childVars, sigVars, fsLocked, sessionId, options,
                   handlers, sandbox, thisConfig, helpers, ideAuthToken, wrapResult>>

\* The 'error' event of a child that could not be started has no listener:
\* an uncaught exception
OnSpawnError ==
    /\ pc = "waiting"
    /\ child = "failed"
    /\ ExitNow(UncaughtExit, "uncaught")
    /\ UNCHANGED <<inputVars, childVars, sigVars, fsLocked, sessionId, options,
                   handlers, sandbox, thisConfig, helpers, ideAuthToken, wrapResult>>

----------------------------------------------------------------------------
(* The environment: signals and the sandboxed child *)

\* The OS delivers SIGINT or SIGTERM to the parent, and with toChild to the
\* child as well (a terminal's Ctrl-C reaches the whole process group, `kill`
\* only the parent).  With the handlers registered the signal waits for the
\* event loop; before that node's default handler ends the process.
DeliverSignal(sig, toChild) ==
    /\ pc # "exited"
    /\ IF handlers
       THEN /\ pending' = pending \cup {sig}
            /\ UNCHANGED <<pc, exitCode, exitVia, fsDirs, fsFiles, cleanupCalls,
                           cleanupRaised>>
       ELSE /\ ExitNow(ExitOf(sig), "killed")
            /\ UNCHANGED pending
    /\ delivered' = delivered \cup {sig}
    /\ childSignalled' = (childSignalled \/ (toChild /\ child = "running"))
    /\ UNCHANGED <<inputVars, child, childCode, fsLocked, sessionId, options,
                   handlers, sandbox, thisConfig, helpers, ideAuthToken, wrapResult>>

\* The child terminates; its 'close' event carries code (null when a signal
\* killed it)
ChildExit(code) ==
    /\ child = "running"
    /\ child' = "closed"
    /\ childCode' = code
    /\ UNCHANGED <<inputVars, childSignalled, sigVars, fsDirs, fsFiles, fsLocked,
                   sessionId, options, pc, handlers, sandbox, thisConfig, helpers, ideAuthToken,
                   wrapResult, cleanupCalls, cleanupRaised, exitCode, exitVia>>

\* The script of rev B: exec 3< ~/.ide-auth-token; rm -f ~/.ide-auth-token
ChildRunsScript ==
    /\ child = "running"
    /\ AuthFile \in fsFiles
    /\ fsFiles' = fsFiles \ {AuthFile}
    /\ UNCHANGED <<inputVars, childVars, sigVars, fsDirs, fsLocked, sessionId,
                   options, pc, handlers, sandbox, thisConfig, helpers, ideAuthToken, wrapResult,
                   cleanupCalls, cleanupRaised, exitCode, exitVia>>

\* The child, whose HOME is the session directory bound read-write, leaves a
\* read-only directory with a file in it, which rmSync cannot delete
ChildLocksHome ==
    /\ child = "running"
    /\ claudeHome \in fsDirs
    /\ fsLocked = {}
    /\ fsDirs' = fsDirs \cup {Join(claudeHome, "cache")}
    /\ fsFiles' = fsFiles \cup {Join(Join(claudeHome, "cache"), "mod")}
    /\ fsLocked' = {Join(Join(claudeHome, "cache"), "mod")}
    /\ UNCHANGED <<inputVars, childVars, sigVars, sessionId, options, pc, handlers,
                   sandbox, thisConfig, helpers, ideAuthToken, wrapResult, cleanupCalls, cleanupRaised,
                   exitCode, exitVia>>

Next ==
    \/ ParseArgs
    \/ Register
    \/ Mkdir
    \/ Stage
    \/ CreateSandbox
    \/ DryRun
    \/ Spawn
    \/ \E sig \in Signals : OnSignal(sig)
    \/ OnClose
    \/ OnSpawnError
    \/ \E sig \in Signals, toChild \in BOOLEAN : DeliverSignal(sig, toChild)
    \/ \E code \in ChildCodes : ChildExit(code)
    \/ ChildRunsScript
    \/ ChildLocksHome

Spec == Init /\ [][Next]_vars

----------------------------------------------------------------------------
(* wrap() on its own: every configuration on Linux and macOS hosts *)

\* The capability fields set through the config file, no CLI flag
FileConfigs(r) == [FieldsOf(r) -> BOOLEAN]

\* main() has run up to the launch: session created, sandbox constructed
ReadyToWrap ==
    /\ argv = <<>>
    /\ options = MergeOptions(rev, argv, fileConfig)
    /\ pc = "ready"
    /\ handlers = TRUE
    /\ pending = {}
    /\ delivered = {}
    /\ sandbox = SandboxCreate(platform)
    /\ thisConfig = SandboxConfig(env, sessionId, hostFacts, options)
    /\ helpers = {GitRevParse}
    /\ ideAuthToken = NoToken
    /\ wrapResult = Threw
    /\ child = "none"
    /\ childCode = NullCode
    /\ childSignalled = FALSE
    /\ cleanupCalls = 0
    /\ cleanupRaised = FALSE
    /\ exitCode = NullCode
    /\ exitVia = "running"
    /\ fsLocked = {}

\* Linux hosts: the ssh agent socket, the XDG runtime directory, the IDE
\* lock directory, the git configuration and the system ssh_config vary
InitLinux ==
    /\ platform = "linux"
    /\ \E sock \in {Unset, SockPath}, xdg \in {Unset, DefaultXdg} :
          env = MkEnv(sock, xdg, Unset, Unset, Unset)
    /\ \E sockExists \in BOOLEAN, xdgDirs \in {{}, {DefaultXdg}, {DefaultXdg, Join(DefaultXdg, "gnupg")}},
          ideIsDir \in BOOLEAN, gitFiles \in SUBSET {GitConfigFile},
          gitDirs \in SUBSET {GitConfigDir}, sshConfig \in SUBSET {SshConfigPath} :
          /\ fsDirs = {HomePath, ClaudeHome(env, sessionId), ClaudeConfig(env)} \cup xdgDirs \cup gitDirs
                      \cup (IF ideIsDir THEN {IdeDir(env)} ELSE {})
          /\ fsFiles = {ClaudeJson(env)} \cup gitFiles \cup sshConfig
                       \cup (IF sockExists THEN {SockPath} ELSE {})
    /\ \E cwd \in {ProjectUnderHome, ProjectElsewhere},
          links \in {{}, {<<SshConfigPath, NixSshConfig>>}} :
          hostFacts = HostFacts(cwd, Unset, links, TRUE, <<>>, TRUE, TRUE)

\* macOS hosts: the seatbelt profile and the temp directory vary
InitDarwin ==
    /\ platform = "darwin"
    /\ \E sock \in {Unset, SockPath}, tmpdir \in {Unset, Abs(<<"var", "tmp">>), PrivateTmp},
          profile \in {Unset, ProfilePath} :
          env = MkEnv(sock, Unset, tmpdir, profile, Unset)
    /\ \E profileFiles \in SUBSET {ProfilePath} :
          /\ fsDirs = {HomePath, ClaudeHome(env, sessionId), ClaudeConfig(env)}
          /\ fsFiles = {ClaudeJson(env), SockPath} \cup profileFiles
    /\ \E cwd \in {ProjectUnderHome, ProjectElsewhere},
          links \in {{}, {<<TmpRoot, PrivateTmp>>}} :
          hostFacts = HostFacts(cwd, Unset, links, TRUE, <<>>, TRUE, TRUE)

InitWrap ==
    /\ rev \in {"A", "B"}
    /\ sessionId = "4e5f6a7b"
    /\ fileConfig \in FileConfigs(rev)
    /\ InitLinux \/ InitDarwin
    /\ ReadyToWrap

\* const { cmd, args, env } = this.wrap(script)
ApplyWrap ==
    /\ pc = "ready"
    /\ wrapResult' = Wrap(sandbox, rev, thisConfig,
                          Script(env, hostFacts, ideAuthToken), env, fsDirs, fsFiles, hostFacts)
    /\ fsFiles' = fsFiles \cup WrittenPaths(wrapResult')
    /\ pc' = "wrapped"
    /\ UNCHANGED <<inputVars, childVars, sigVars, fsDirs, fsLocked, sessionId,
                   options, handlers, sandbox, thisConfig, helpers, ideAuthToken, cleanupCalls,
                   cleanupRaised, exitCode, exitVia>>

SpecWrap == InitWrap /\ [][ApplyWrap]_vars

----------------------------------------------------------------------------
(* Reading a WrapResult *)

MountFlags == {Tok("--bind"), Tok("--ro-bind"), Tok("--ro-bind-try")}
ReadOnlyFlags == {Tok("--ro-bind"), Tok("--ro-bind-try")}

\* The positions of the argument list that hold a bind: flag, source, target
Mounts(args) == {i \in 1..(Len(args) - 2) : args[i] \in MountFlags}

\* The binds whose target is path or a directory above it
MountsCovering(args, path) == {i \in Mounts(args) : Under(path, args[i + 2])}

\* The binds whose source is src
MountsOf(args, src) == {i \in Mounts(args) : args[i + 1] = src}

\* The positions of `--setenv name value`
Setenvs(args, name) ==
    {i \in 1..(Len(args) - 2) : args[i] = Tok("--setenv") /\ args[i + 1] = Tok(name)}

SetMax(S) == CHOOSE x \in S : \A y \in S : y <= x

HostSock == Get(env, "SSH_AUTH_SOCK")
GpgDir == Join(XdgRuntimeDir(env), "gnupg")

\* wrap() has returned a WrapResult of the namespace backend
WrappedBwrap == pc = "wrapped" /\ sandbox = "bwrap" /\ ~wrapResult.threw

\* wrap() has returned a WrapResult of either backend
Wrapped == pc = "wrapped" /\ ~wrapResult.threw

\* The argument list binds the SSH agent socket on its own
NarrowSshBind == MountsOf(wrapResult.args, HostSock) # {}

\* The argument list binds the GPG socket directory on its own
NarrowGpgBind == MountsOf(wrapResult.args, GpgDir) # {}

----------------------------------------------------------------------------
(* Session lifecycle: claims C1 - C6, checked under Spec *)

\* The session directory, or what is left of it, exists
SessionDirExists == claudeHome \in fsDirs

\* C1 as stated: on every run that creates a session the cleanup closure is
\* invoked exactly once per process lifetime, never a second time by the
\* 'exit' hook.
C1_CleanupExactlyOnce ==
    (pc = "exited" /\ handlers) => cleanupCalls = 1

\* C1 amended: the cleanup closure runs once, through the 'exit' hook, when
\* the process ends by the child's close event or by an error, and twice when
\* it ends by SIGINT, SIGTERM or a dry run: directly, and again through the
\* 'exit' hook that process.exit fires.  It never runs before the process ends.
C1_CleanupOnceOrTwice ==
    /\ pc # "exited" => cleanupCalls = 0
    /\ (pc = "exited" /\ handlers) =>
          cleanupCalls = IF exitVia \in Signals \cup {"dryRun"} THEN 2 ELSE 1
    /\ (pc = "exited" /\ ~handlers) => cleanupCalls = 0

\* C1 witness: a run ended by SIGINT, its cleanup invoked by the handler and by the hook
C1_Witness ==
    pc = "exited" /\ exitVia = "SIGINT" /\ cleanupCalls = 2 /\ ~SessionDirExists

\* C2 as stated: session cleanup never runs while the spawned child is still
\* executing, except when the same signal delivery is ending the child.
C2_NoCleanupWhileChildRuns ==
    (cleanupCalls > 0 /\ child = "running") => childSignalled

\* C3 as stated: a SIGINT or SIGTERM the parent receives at any point after
\* the handlers are registered makes it exit with 130 or 143.
C3_SignalAlwaysDecidesStatus ==
    \A sig \in Signals :
        (pc = "exited" /\ handlers /\ delivered = {sig}) => exitCode = ExitOf(sig)

\* C3 amended: when the SIGINT or SIGTERM handler runs -- which it does only
\* from the event loop, after main() has spawned the child and before the close
\* callback has run -- it invokes cleanup (removing the session directory
\* unless the removal fails) and then exits with 130 for SIGINT and 143 for
\* SIGTERM, whatever the child's status.  A signal that arrives during a dry
\* run or a failing setup is never handled.
C3_HandlerDecidesStatus ==
    exitVia \in Signals =>
        /\ pc = "exited"
        /\ exitVia \in delivered
        /\ exitCode = (IF exitVia = "SIGINT" THEN 130 ELSE 143)
        /\ cleanupCalls = 2
        /\ fsLocked = {} => ~SessionDirExists
        /\ child \in {"running", "closed", "failed"}
        /\ ~options.dryRun

\* C3 witness: SIGTERM handled after the child ended with status 1
C3_Witness ==
    /\ exitVia = "SIGTERM"
    /\ child = "closed"
    /\ childCode = 1
    /\ exitCode = 143
    /\ ~SessionDirExists

\* C4 as stated: invoking cleanup once or twice, whatever the state of the
\* session directory, never raises and always leaves no session directory.
C4_CleanupAlwaysRemoves ==
    handlers =>
        \A o1 \in Cleanup(fsDirs, fsFiles, fsLocked, claudeHome) :
            /\ ~o1.raised
            /\ claudeHome \notin o1.dirs
            /\ \A o2 \in Cleanup(o1.dirs, o1.files, fsLocked, claudeHome) :
                  ~o2.raised /\ claudeHome \notin o2.dirs

\* The session tree holds an entry that rmSync cannot delete
Undeletable == \E l \in fsLocked : l \in fsDirs \cup fsFiles

\* C4 amended: invoking cleanup any number of times never raises, whether the
\* session directory was never created, is already removed or is partially
\* removed; it leaves no session directory behind unless fs.rmSync itself
\* fails, an error the closure swallows; a second invocation after a
\* successful one changes nothing.
C4_CleanupIdempotent ==
    /\ ~cleanupRaised
    /\ handlers =>
          \A o1 \in Cleanup(fsDirs, fsFiles, fsLocked, claudeHome) :
              /\ ~o1.raised
              /\ ~Undeletable => claudeHome \notin o1.dirs
              /\ \A o2 \in Cleanup(o1.dirs, o1.files, fsLocked, claudeHome) :
                    /\ ~o2.raised
                    /\ ~Undeletable => (o2.dirs = o1.dirs /\ o2.files = o1.files)
                    /\ o2.dirs \subseteq o1.dirs /\ o2.files \subseteq o1.files

\* C4 witness: cleanup has run twice, the second time on a removed directory
C4_Witness ==
    cleanupCalls = 2 /\ ~SessionDirExists /\ ~cleanupRaised

\* C5: on a real run with no signal delivered to the parent, the parent's exit
\* status is the child's numeric exit status, and 0 when the close event
\* carries no numeric status.
C5_ExitStatusIsChildStatus ==
    (pc = "exited" /\ delivered = {} /\ child \notin {"none", "failed"}) =>
        /\ ~options.dryRun
        /\ child = "closed"
        /\ exitVia = "close"
        /\ exitCode = (IF childCode = NullCode THEN 0 ELSE childCode)

\* C5 witness: the child was killed by a signal, the parent ends with 0
C5_Witness ==
    /\ pc = "exited"
    /\ delivered = {}
    /\ child = "closed"
    /\ childCode = NullCode
    /\ exitCode = 0

\* The run reached the launch: the sandbox object exists
ReachedLaunch == sandbox # "none" /\ pc = "exited"

\* C6 as stated: with the dry-run flag the program never spawns the child and
\* always ends with status 0 where a real run would have reached the spawn
\* step, also when wrap() fails.
C6_DryRunAlwaysZero ==
    options.dryRun =>
        /\ child = "none"
        /\ ReachedLaunch => exitCode = 0

\* C6 amended: with the dry-run flag the program never spawns the child; it
\* ends with status 0 whenever wrap() returns a WrapResult, also where the
\* real run's spawn would fail because the command cannot be started; when
\* wrap() throws (the profile backend without a readable profile) the dry run
\* ends with status 1, again without spawning.
C6_DryRunZeroUnlessWrapThrows ==
    options.dryRun =>
        /\ child = "none"
        /\ ReachedLaunch =>
              /\ ~wrapResult.threw => (exitCode = 0 /\ exitVia = "dryRun")
              /\ wrapResult.threw => (exitCode = 1 /\ sandbox = "seatbelt")

\* C6 witness: a dry run ended with 0 on a host where the command cannot be started
C6_Witness ==
    /\ options.dryRun
    /\ pc = "exited"
    /\ exitVia = "dryRun"
    /\ exitCode = 0
    /\ ~hostFacts.cmdAvailable
    /\ child = "none"

----------------------------------------------------------------------------
(* The WrapResult: claims C7 - C10, checked under SpecWrap *)

\* C7 as stated: the namespace backend with allowSshAgent disabled emits
\* neither the host's SSH_AUTH_SOCK nor the sandbox socket path: no
\* SSH_AUTH_SOCK entry in the environment, no `--setenv SSH_AUTH_SOCK`, no
\* bind of the socket.
C7_NoSshSockWhenDisabled ==
    (WrappedBwrap /\ ~options.allowSshAgent) =>
        /\ "SSH_AUTH_SOCK" \notin DOMAIN wrapResult.env
        /\ Setenvs(wrapResult.args, "SSH_AUTH_SOCK") = {}
        /\ ~NarrowSshBind
        /\ \A i \in Mounts(wrapResult.args) : wrapResult.args[i + 2] # SANDBOX_SSH_SOCK

\* C8 as stated: for both backends the environment of the WrapResult holds
\* the host's raw SSH forwarding socket path only if allowSshAgent is enabled.
C8_HostSockOnlyWhenAllowed ==
    (Wrapped /\ Truthy(HostSock)
        /\ \E k \in DOMAIN wrapResult.env : wrapResult.env[k] = HostSock)
    => options.allowSshAgent

SockUsable == Truthy(HostSock) /\ pathExists(HostSock, fsDirs, fsFiles)

C10_IdeDirNeverWritable ==
    (WrappedBwrap /\ rev = "B") =>
        LET covering == MountsCovering(wrapResult.args, IdeDir(env))
        IN  covering = {} \/ wrapResult.args[SetMax(covering)] \in ReadOnlyFlags

----------------------------------------------------------------------------
(* readIdeAuthToken on its own: every small ~/.claude/ide directory *)

MaxLocks == 3
MaxMtime == 3

LockNames == {<<"1", ".lock">>, <<"1">>, <<"2", ".lock">>, <<"notes">>}

\* The directory listings: at most MaxLocks entries with distinct names, the
\* i-th entry carrying its own token or none
LockListings ==
    {l \in UNION {[1..n -> [name : LockNames, mtime : 1..MaxMtime,
                            authToken : {NoToken}]] : n \in 0..MaxLocks} :
        \A i, j \in DOMAIN l : i # j => l[i].name # l[j].name}

\* JSON.parse(...).authToken of the i-th entry when the file carries one
TokenAt(i) == <<"token", ToString(i)>>

\* main() of src/unnamed/part_001 with --allow-ide, up to Sandbox.create
InitIde ==
    /\ rev = "B"
    /\ platform \in {"linux", "darwin"}
    /\ argv = <<"--allow-ide">>
    /\ fileConfig = <<>>
    /\ sessionId = "4e5f6a7b"
    /\ \E port \in {Unset, <<"1">>, <<"2">>, <<"auto">>} :
          env = MkEnv(Unset, Unset, Unset, Unset, port)
    /\ \E ideIsDir \in BOOLEAN :
          /\ fsDirs = {HomePath, ClaudeHome(env, sessionId), ClaudeConfig(env)}
                      \cup (IF ideIsDir THEN {IdeDir(env)} ELSE {})
          /\ fsFiles = {ClaudeJson(env)}
    /\ \E l \in LockListings, withToken \in SUBSET (1..MaxLocks) :
          /\ withToken \subseteq DOMAIN l
          /\ IdeDir(env) \notin fsDirs => l = <<>>
          /\ hostFacts = HostFacts(ProjectElsewhere, Unset, {}, TRUE,
                            [i \in DOMAIN l |->
                                [l[i] EXCEPT !.authToken =
                                    IF i \in withToken THEN TokenAt(i) ELSE NoToken]],
                            TRUE, TRUE)
    /\ options = MergeOptions(rev, argv, fileConfig)
    /\ pc = "staged"
    /\ handlers = TRUE
    /\ pending = {}
    /\ delivered = {}
    /\ sandbox = "none"
    /\ thisConfig = NoConfig
    /\ helpers = {GitRevParse}
    /\ ideAuthToken = NoToken
    /\ wrapResult = Threw
    /\ child = "none"
    /\ childCode = NullCode
    /\ childSignalled = FALSE
    /\ cleanupCalls = 0
    /\ cleanupRaised = FALSE
    /\ exitCode = NullCode
    /\ exitVia = "running"
    /\ fsLocked = {}

SpecIde == InitIde /\ [][CreateSandbox]_vars

----------------------------------------------------------------------------
(* IDE token selection: claim C11, checked under SpecIde *)

\* main() has called readIdeAuthToken()
IdeRead == pc = "ready" /\ rev = "B" /\ options.allowIde

PortHint == Get(env, "CLAUDE_CODE_SSE_PORT")

\* The lock files named after the hinted port that carry a token
HintedLocks ==
    {i \in DOMAIN hostFacts.ideLocks :
        /\ Truthy(PortHint)
        /\ hostFacts.ideLocks[i].name \in {PortHint, PortHint \o <<".lock">>}
        /\ hostFacts.ideLocks[i].authToken # NoToken}

\* The candidate lock files (<port> or <port>.lock) that carry a token
YieldingLocks ==
    {i \in DOMAIN hostFacts.ideLocks :
        /\ \E port \in {"1", "2", "3"} :
              hostFacts.ideLocks[i].name \in {<<port>>, <<port, ".lock">>}
        /\ hostFacts.ideLocks[i].authToken # NoToken}

----------------------------------------------------------------------------
(* The shared tree on its own: every small project root and home *)

MaxDepth == 4

\* Path segments; <<"u", "2">> is the name "u2", which starts with "u"
Segments == {<<"home">>, <<"u">>, <<"u", "2">>, <<"work">>}

RECURSIVE PathOf(_)
\* The canonical absolute path with the given segments: "/" for none
PathOf(segs) ==
    IF segs = <<>> THEN <<"/">>
    ELSE IF Len(segs) = 1 THEN <<"/">> \o Head(segs)
    ELSE <<"/">> \o Head(segs) \o PathOf(Tail(segs))

\* Hosts whose home is /home/u, /home or the root directory (the home of an
\* account without one), the project at any path of at most MaxDepth segments
InitShare ==
    /\ rev \in {"A", "B"}
    /\ platform \in {"linux", "darwin", "win32"}
    /\ argv = <<>>
    /\ fileConfig = <<>>
    /\ sessionId = "4e5f6a7b"
    /\ \E homeSegs \in {<<>>, << <<"home">> >>, << <<"home">>, <<"u">> >>} :
          env = [MkEnv(Unset, Unset, Unset, Unset, Unset)
                    EXCEPT !["HOME"] = PathOf(homeSegs)]
    /\ fsDirs = {HomeOf(env), ClaudeHome(env, sessionId), ClaudeConfig(env)}
    /\ fsFiles = {ClaudeJson(env)}
    /\ \E projectSegs \in SeqsUpTo(Segments, MaxDepth), inRepo \in BOOLEAN :
          hostFacts = HostFacts(PathOf(projectSegs),
                                IF inRepo THEN PathOf(projectSegs) ELSE Unset,
                                {}, TRUE, <<>>, TRUE, TRUE)
    /\ options = MergeOptions(rev, argv, fileConfig)
    /\ pc = "staged"
    /\ handlers = TRUE
    /\ pending = {}
    /\ delivered = {}
    /\ sandbox = "none"
    /\ thisConfig = NoConfig
    /\ helpers = {GitRevParse}
    /\ ideAuthToken = NoToken
    /\ wrapResult = Threw
    /\ child = "none"
    /\ childCode = NullCode
    /\ childSignalled = FALSE
    /\ cleanupCalls = 0
    /\ cleanupRaised = FALSE
    /\ exitCode = NullCode
    /\ exitVia = "running"
    /\ fsLocked = {}

SpecShare == InitShare /\ [][CreateSandbox]_vars

----------------------------------------------------------------------------
(* Shared tree: claim C12, checked under SpecShare *)

RECURSIVE SegmentsOf(_)
\* The segments of a canonical absolute path
SegmentsOf(p) ==
    IF p = <<>> \/ p = <<"/">> THEN <<>>
    ELSE LET rest == Tail(p)
             first == SplitFirst(rest)
         IN  <<first>> \o SegmentsOf(SubSeq(rest, Len(first) + 1, Len(rest)))

\* P lies strictly under H in the file tree
StrictlyBelow(P, H) ==
    /\ Len(SegmentsOf(H)) < Len(SegmentsOf(P))
    /\ SubSeq(SegmentsOf(P), 1, Len(SegmentsOf(H))) = SegmentsOf(H)

\* Sandbox.create() has stored the configuration main() computed
ConfigBuilt == pc = "ready" /\ thisConfig # NoConfig

\* C12 as stated: for every canonical project root P and canonical home H,
\* when P lies strictly under H the shared tree is H joined with the first
\* segment of P below H; otherwise (P equal to H, P only starting with the
\* characters of H, P elsewhere) the shared tree is P itself.
C12_ShareTreeIsFirstSegment ==
    ConfigBuilt =>
        LET P == realpath(thisConfig.repoRoot, hostFacts.links)
            H == realpath(HomeOf(env), hostFacts.links)
        IN  IF StrictlyBelow(P, H)
            THEN thisConfig.shareTree =
                    PathOf(SubSeq(SegmentsOf(P), 1, Len(SegmentsOf(H)) + 1))
            ELSE thisConfig.shareTree = P

----------------------------------------------------------------------------
(* Profile backend: claim C13, checked under SpecWrap *)

\* wrap() has returned a WrapResult of the profile backend
WrappedSeatbelt == pc = "wrapped" /\ sandbox = "seatbelt" /\ ~wrapResult.threw

\* The policy text handed to sandbox-exec -p
PolicyOf(args) == args[2]

\* The values of the -D parameters that start with prefix, as "-DTMPDIR="
ParamsOf(args, prefix) ==
    {SubSeq(args[i], 2, Len(args[i])) :
        i \in {j \in 3..Len(args) : Len(args[j]) > 0 /\ args[j][1] = prefix}}

\* The clauses of a policy that never depend on the host's paths
FixedClauses ==
    {"<basePolicy>", "(allow file-read*)", "(allow file-write*", ")",
     "(allow network-outbound)", "(allow network-inbound)", "(allow system-socket)",
     "(subpath (param \"PROJECT_DIR\"))", "(subpath (param \"TMPDIR\"))",
     "(subpath (param \"SLASH_TMP\"))"}

\* C13: in the profile backend the policy has the SLASH_TMP writable clause,
\* and the argument list the -DSLASH_TMP parameter, exactly when the canonical
\* temp directory differs from canonical /tmp, both together or neither;
\* PROJECT_DIR and TMPDIR are always -D parameters that hold the canonical
\* paths, and the policy text refers to them by parameter only.
C13_SlashTmpIffDifferent ==
    WrappedSeatbelt =>
        LET canonicalTmpdir == realpath(getTmpDir(env), hostFacts.links)
            canonicalSlashTmp == realpath(TmpRoot, hostFacts.links)
            hasClause == "(subpath (param \"SLASH_TMP\"))" \in Range(PolicyOf(wrapResult.args))
            params == ParamsOf(wrapResult.args, "-DSLASH_TMP=")
        IN  /\ hasClause <=> canonicalTmpdir # canonicalSlashTmp
            /\ params # {} <=> canonicalTmpdir # canonicalSlashTmp
            /\ params \subseteq {canonicalSlashTmp}
            /\ ParamsOf(wrapResult.args, "-DPROJECT_DIR=")
                  = {realpath(thisConfig.repoRoot, hostFacts.links)}
            /\ ParamsOf(wrapResult.args, "-DTMPDIR=") = {canonicalTmpdir}
            /\ Range(PolicyOf(wrapResult.args)) \subseteq FixedClauses

\* C13 witness: TMPDIR is /var/tmp and /tmp is a link to /private/tmp; the
\* policy has the clause and the parameter carries /private/tmp
C13_Witness ==
    /\ WrappedSeatbelt
    /\ Get(env, "TMPDIR") = Abs(<<"var", "tmp">>)
    /\ <<TmpRoot, PrivateTmp>> \in hostFacts.links
    /\ "(subpath (param \"SLASH_TMP\"))" \in Range(PolicyOf(wrapResult.args))
    /\ ParamsOf(wrapResult.args, "-DSLASH_TMP=") = {PrivateTmp}

----------------------------------------------------------------------------
(* parseArgs() on its own: every config file with every short flag list *)

MaxFlags == 2

\* Config files that define any subset of the capability fields
PartialConfigs(r) == UNION {[D -> BOOLEAN] : D \in SUBSET FieldsOf(r)}

InitArgs ==
    /\ rev \in {"A", "B"}
    /\ platform = "linux"
    /\ argv \in SeqsUpTo({FlagOf(f) : f \in FieldsOf(rev)}, MaxFlags)
    /\ fileConfig \in PartialConfigs(rev)
    /\ env = MkEnv(Unset, Unset, Unset, Unset, Unset)
    /\ fsDirs = {HomePath}
    /\ fsFiles = {}
    /\ hostFacts = HostFacts(ProjectElsewhere, Unset, {}, TRUE, <<>>, TRUE, TRUE)
    /\ InitRun

SpecArgs == InitArgs /\ [][ParseArgs]_vars

----------------------------------------------------------------------------
(* Configuration precedence: claim C14, checked under SpecArgs *)

\* C14: CLI > config file > default, field by field: the resolved value of a
\* capability field is the CLI's when its flag is given, whatever the file
\* holds; else the file's when the file defines the field; else false.  No
\* other field enters.
C14_CliOverFileOverDefault ==
    pc = "parsed" =>
        \A f \in FieldsOf(rev) :
            options[f] = IF FlagOf(f) \in Range(argv) THEN TRUE
                         ELSE IF f \in DOMAIN fileConfig THEN fileConfig[f]
                         ELSE FALSE

\* C14 witness: the flag overrides the file's false, another field comes from
\* the file, a third from the default
C14_Witness ==
    /\ pc = "parsed"
    /\ argv = <<"--allow-ssh-agent">>
    /\ DOMAIN fileConfig = {"allowSshAgent", "allowGpgAgent"}
    /\ ~fileConfig["allowSshAgent"] /\ fileConfig["allowGpgAgent"]
    /\ options.allowSshAgent /\ options.allowGpgAgent /\ ~options.allowXdgRuntime

----------------------------------------------------------------------------
(* Setup errors: claims C15 - C16, checked under Spec *)

Unsupported == platform \notin {"linux", "darwin"}

\* C15: on an unsupported platform no backend is constructed and no sandboxed
\* child is ever spawned; the run that reaches Sandbox.create() exits with
\* status 1; whatever way the process ends, the session directory it created
\* is removed.
C15_UnsupportedPlatformExitsOne ==
    Unsupported =>
        /\ sandbox = "none" /\ child = "none" /\ wrapResult = Threw
        /\ pc \notin {"ready", "waiting"}
        /\ pc = "exited" =>
              /\ ~SessionDirExists
              /\ exitVia \in {"help", "usage", "killed", "uncaught", "error"}
              /\ exitVia = "error" => exitCode = 1

\* C15 witness: a win32 run that created its session, failed in
\* Sandbox.create() and left with status 1, the session directory removed
C15_Witness ==
    /\ Unsupported
    /\ pc = "exited" /\ exitVia = "error" /\ exitCode = 1
    /\ ClaudeHelp \in helpers
    /\ cleanupCalls = 1
    /\ ~SessionDirExists
    /\ child = "none"

\* The profile backend is selected and the profile variable is unset or names
\* a path that does not exist
ProfileMissing ==
    /\ sandbox = "seatbelt"
    /\ \/ Get(env, "CLAUDEBOX_SEATBELT_PROFILE") = Unset
       \/ Get(env, "CLAUDEBOX_SEATBELT_PROFILE") \notin fsDirs \cup fsFiles

----------------------------------------------------------------------------
(* The launcher on Linux with every flag list of at most MaxFlags flags *)

InitFlags ==
    /\ rev \in {"A", "B"}
    /\ platform = "linux"
    /\ argv \in SeqsUpTo(LifecycleFlags, MaxFlags)
    /\ fileConfig = <<>>
    /\ env = MkEnv(SockPath, Unset, Unset, Unset, Unset)
    /\ fsDirs = {HomePath, SshDir, DefaultXdg, IdeDir(env)}
    /\ fsFiles = {SockPath, SshConfigPath, Join(SshDir, "known_hosts"),
                  Join(SshDir, "config"), SshDir \o <<"/", "id">>,
                  SshDir \o <<"/", "id", ".pub">>}
    /\ \E cmdAvailable \in BOOLEAN :
          hostFacts = HostFacts(ProjectUnderHome, Unset, {}, TRUE, OneLock,
                                TRUE, cmdAvailable)
    /\ InitRun

SpecFlags == InitFlags /\ [][Next]_vars

----------------------------------------------------------------------------
(* Unknown flags: claim C17, checked under SpecFlags *)

\* The positions of argv that hold a flag this revision does not know
UnknownAt == {i \in DOMAIN argv : argv[i] \notin KnownFlags(rev) \cup HelpFlags}

\* -h or --help stands before the first unknown flag
HelpBeforeUnknown ==
    \E i \in UnknownAt :
        /\ \A k \in UnknownAt : i <= k
        /\ \E j \in 1..(i - 1) : argv[j] \in HelpFlags

\* No session directory exists for any identifier
NoSessionDir ==
    \A p \in fsDirs \cup fsFiles, id \in SessionIdValues : ~Under(p, ClaudeHome(env, id))

\* Nothing of the session setup has happened
NothingSetUp ==
    /\ pc \in {"start", "exited"}
    /\ sessionId = "none" /\ ~handlers
    /\ NoSessionDir
    /\ sandbox = "none" /\ thisConfig = NoConfig
    /\ child = "none" /\ helpers = {}

\* C17 as stated: an unrecognized flag at any position of the argument list
\* ends the run with a non-zero exit status before a session directory is
\* created, a backend constructed or a child spawned, even when valid flags
\* precede it.
C17_UnknownFlagAlwaysFails ==
    UnknownAt # {} =>
        /\ NothingSetUp
        /\ pc = "exited" => exitCode # 0

\* C17 amended: parseArgs() handles the arguments in order, so an unrecognized
\* flag ends the run with status 1 before anything is set up, even when
\* capability flags precede it, unless -h or --help precedes it: then the help
\* is shown and the status is 0, and nothing is set up either.
C17_UnknownFlagFailsUnlessHelpFirst ==
    UnknownAt # {} =>
        /\ NothingSetUp
        /\ (pc = "exited" /\ exitVia # "killed") =>
              IF HelpBeforeUnknown
              THEN exitCode = 0 /\ exitVia = "help"
              ELSE exitCode = 1 /\ exitVia = "usage"

\* C17 witness: a valid flag, then an unknown one; the run left with status 1
C17_Witness ==
    /\ argv = <<"--allow-ssh-agent", "--bogus">>
    /\ pc = "exited" /\ exitVia = "usage" /\ exitCode = 1
    /\ NothingSetUp

----------------------------------------------------------------------------
(* Two invocations on one host: the second one is the environment *)

\* Another invocation of the launcher is running on the host for the whole
\* run; randomHex(8) gave it this identifier
OtherSessionId == "0a1b2c3d"

\* Its session directory, the HOME of its sandboxed child, and a file in it
OtherHome == ClaudeHome(env, OtherSessionId)
OtherFile == Join(OtherHome, ".bash_history")

InitPair ==
    /\ rev \in {"A", "B"}
    /\ platform = "linux"
    /\ argv \in SeqsUpTo(LifecycleFlags, MaxArgs)
    /\ fileConfig = <<>>
    /\ env = MkEnv(SockPath, Unset, Unset, Unset, Unset)
    /\ fsDirs = {HomePath, SshDir, DefaultXdg, IdeDir(env), OtherHome}
    /\ fsFiles = {SockPath, SshConfigPath, Join(SshDir, "known_hosts"),
                  Join(SshDir, "config"), SshDir \o <<"/", "id">>,
                  SshDir \o <<"/", "id", ".pub">>, OtherFile}
    /\ \E cmdAvailable \in BOOLEAN :
          hostFacts = HostFacts(ProjectUnderHome, Unset, {}, TRUE, OneLock,
                                TRUE, cmdAvailable)
    /\ InitRun

SpecPair == InitPair /\ [][Next]_vars

----------------------------------------------------------------------------
(* Concurrent sessions: claim C18, checked under SpecPair *)

\* C18 as stated: of two invocations running at once neither uses nor removes
\* the other's session directory: session creation never takes the existing
\* directory of the other one as its own, and that directory and its content
\* stay.
C18_SessionDirExclusive ==
    /\ pc \in {"created", "staged", "ready", "waiting"} => claudeHome # OtherHome
    /\ OtherHome \in fsDirs
    /\ OtherFile \in fsFiles

----------------------------------------------------------------------------
(* Credential artifacts: claim C19, checked under Spec *)

\* The files of the host before the run
HostFiles ==
    {SockPath, SshConfigPath, ProfilePath, Join(SshDir, "known_hosts"),
     Join(SshDir, "config"), SshDir \o <<"/", "id">>, SshDir \o <<"/", "id", ".pub">>}

\* What the run adds to the host's files, ~/.claude.json apart
AddedFiles == fsFiles \ (HostFiles \cup {ClaudeJson(env)})

\* The files this run staged that carry credentials or their configuration,
\* by the last path segment: copies of ~/.ssh, the sanitized ssh_config, the
\* IDE auth token
IsArtifact(p) ==
    p[Len(p)] \in {"known_hosts", "config", ".pub", "ssh_config", ".ide-auth-token"}

Artifacts == {p \in AddedFiles : IsArtifact(p)}

\* C19 as stated: every credential artifact is written only under the
\* session directory, and none exists once the parent process has exited, by
\* whatever path.
C19_NoArtifactOutlivesSession ==
    /\ \A p \in Artifacts : sessionId # "none" /\ Under(p, claudeHome)
    /\ pc = "exited" => Artifacts = {}

\* C19 amended: every credential artifact is written only under the session
\* directory, the private keys of ~/.ssh are never copied, and once the parent
\* process has exited no artifact exists unless the removal of the session
\* directory failed: the child left an entry that cannot be deleted, cleanup
\* swallowed the error, and what is left of the session directory can still
\* hold artifacts.
C19_NoArtifactUnlessCleanupFailed ==
    /\ \A p \in AddedFiles : sessionId # "none" /\ Under(p, claudeHome)
    /\ \A p \in AddedFiles : p[Len(p)] # "id"
    /\ (pc = "exited" /\ Artifacts # {}) => (fsLocked # {} /\ SessionDirExists)
    /\ (pc = "exited" /\ fsLocked = {}) => AddedFiles = {}

\* C19 witness: a run with the SSH agent enabled that staged its copies,
\* launched the child and ended on its close event with nothing left
C19_Witness ==
    /\ rev = "A" /\ options.allowSshAgent
    /\ pc = "exited" /\ exitVia = "close"
    /\ cleanupCalls = 1
    /\ Artifacts = {}
    /\ ~SessionDirExists

----------------------------------------------------------------------------
(* Order of the override binds: claim C20, checked under SpecWrap *)

\* The positions of `--tmpfs /tmp`
TmpfsAt(args) ==
    {i \in 1..(Len(args) - 1) : args[i] = Tok("--tmpfs") /\ args[i + 1] = TmpRoot}

\* The positions of `--ro-bind /nix /nix`
NixStoreAt(args) ==
    {i \in Mounts(args) : args[i] = Tok("--ro-bind") /\ args[i + 1] = Abs(<<"nix">>)
                          /\ args[i + 2] = Abs(<<"nix">>)}

\* The read-only binds of the sanitized ssh_config of the session
SshConfigBinds(args) ==
    {i \in Mounts(args) : args[i] = Tok("--ro-bind")
                          /\ args[i + 1] = Join(thisConfig.claudeHome, "ssh_config")}

\* The binds of the SSH agent socket onto /tmp/ssh-agent.sock
SshSockBinds(args) ==
    {i \in Mounts(args) : args[i] = Tok("--bind") /\ args[i + 2] = SANDBOX_SSH_SOCK}

\* C20: in every argument list of the namespace backend the read-only bind of
\* the sanitized ssh_config stands after `--ro-bind /nix /nix` (and after
\* every other mount that covers its target), and the bind of the SSH agent
\* socket onto /tmp/ssh-agent.sock stands after `--tmpfs /tmp` (and after
\* every other mount that covers /tmp/ssh-agent.sock): the later, narrower
\* mount overrides the earlier, broader one.
C20_OverrideBindsComeLater ==
    WrappedBwrap =>
        LET args == wrapResult.args
        IN  /\ NixStoreAt(args) # {} /\ TmpfsAt(args) # {}
            /\ \A i \in SshConfigBinds(args) :
                  /\ \A n \in NixStoreAt(args) : n < i
                  /\ \A m \in MountsCovering(args, args[i + 2]) : m <= i
                  /\ \A t \in TmpfsAt(args) : ~Under(args[i + 2], TmpRoot)
            /\ \A i \in SshSockBinds(args) :
                  /\ \A t \in TmpfsAt(args) : t < i
                  /\ \A m \in MountsCovering(args, SANDBOX_SSH_SOCK) : m <= i

\* C20 witness: the system ssh_config is a link into the store and the agent
\* socket exists; both override binds are in the argument list
C20_Witness ==
    /\ WrappedBwrap
    /\ rev = "A"
    /\ <<SshConfigPath, NixSshConfig>> \in hostFacts.links
    /\ \E i \in SshConfigBinds(wrapResult.args) : wrapResult.args[i + 2] = NixSshConfig
    /\ SshSockBinds(wrapResult.args) # {}

----------------------------------------------------------------------------
(* Project locations and symbolic links: the hosts of SpecProject *)

ProjectInRuntimeDir == Join(DefaultXdg, "scratch")
SrvLink == <<Abs(<<"srv">>), Abs(<<"mnt", "data">>)>>
HomeLink == <<Abs(<<"home">>), Abs(<<"var", "home">>)>>

\* The directories main() can be started in: the home itself, a directory
\* directly under it, one deeper, one outside the home and one inside the XDG
\* runtime directory
ProjectDirs == {HomePath, Abs(<<"home", "u", "work">>), ProjectUnderHome,
                ProjectElsewhere, ProjectInRuntimeDir}

\* Linux hosts where /srv or /home may be a symbolic link, so that the path
\* getRepoRoot() returns need not be canonical, with every file configuration
InitProject ==
    /\ rev \in {"A", "B"}
    /\ platform = "linux"
    /\ sessionId = "4e5f6a7b"
    /\ fileConfig \in FileConfigs(rev)
    /\ env = MkEnv(SockPath, Unset, Unset, Unset, Unset)
    /\ fsDirs = {HomePath, ClaudeHome(env, sessionId), ClaudeConfig(env),
                 DefaultXdg, Join(DefaultXdg, "gnupg"), IdeDir(env)}
    /\ fsFiles = {ClaudeJson(env), SockPath}
    /\ \E cwd \in ProjectDirs, inRepo \in BOOLEAN,
          links \in {{}, {SrvLink}, {HomeLink}} :
          hostFacts = HostFacts(cwd, IF inRepo THEN cwd ELSE Unset,
                                links, TRUE, <<>>, TRUE, TRUE)
    /\ ReadyToWrap

SpecProject == InitProject /\ [][ApplyWrap]_vars

----------------------------------------------------------------------------
(* The project binds: claim C21, checked under SpecProject *)

\* The read-write binds of the project root onto itself
ProjectBinds(args) ==
    {i \in Mounts(args) : /\ args[i] = Tok("--bind")
                          /\ args[i + 1] = thisConfig.repoRoot
                          /\ args[i + 2] = thisConfig.repoRoot}

\* The read-only binds of the shared tree onto itself
ShareTreeBinds(args) ==
    {i \in Mounts(args) : /\ args[i] = Tok("--ro-bind")
                          /\ args[i + 1] = thisConfig.shareTree
                          /\ args[i + 2] = thisConfig.shareTree}

\* The binds whose target is the project root or a directory above it, as
\* written or after resolving symbolic links
CoveringProject(args) ==
    {i \in Mounts(args) :
        \/ Under(thisConfig.repoRoot, args[i + 2])
        \/ Under(realpath(thisConfig.repoRoot, hostFacts.links),
                 realpath(args[i + 2], hostFacts.links))}

\* The project root is bound read-write exactly once, and the shared tree is
\* bound read-only, before it, exactly when it is another path
SharedTreeBeforeProject(args) ==
    /\ Cardinality(ProjectBinds(args)) = 1
    /\ (ShareTreeBinds(args) # {}) <=> (thisConfig.shareTree # thisConfig.repoRoot)
    /\ \A i \in ShareTreeBinds(args), j \in ProjectBinds(args) : i < j

\* No read-only bind covering the project root follows its read-write bind
NoReadOnlyOverProject(args) ==
    \A j \in ProjectBinds(args), m \in CoveringProject(args) :
        m > j => args[m] \notin ReadOnlyFlags

\* C21: in every argument list of the namespace backend the read-write bind
\* of the project root is present exactly once, the read-only bind of the
\* shared tree is present exactly when the shared tree differs from the
\* project root and then precedes it, and no read-only bind that covers the
\* project root follows its read-write bind, so the project root stays
\* writable, also when it is a symlinked path and the shared tree canonical.
C21_ProjectRootStaysWritable ==
    WrappedBwrap =>
        /\ SharedTreeBeforeProject(wrapResult.args)
        /\ NoReadOnlyOverProject(wrapResult.args)

\* The part of C21 that every run satisfies: the two binds of lines 312-318,
\* their order and their presence, symlinked project roots included
C21_SharedTreeBindPrecedes ==
    WrappedBwrap =>
        /\ SharedTreeBeforeProject(wrapResult.args)
        /\ \A j \in ProjectBinds(wrapResult.args),
              m \in CoveringProject(wrapResult.args) :
              (m > j /\ wrapResult.args[m] \in ReadOnlyFlags)
                  => /\ options.allowXdgRuntime
                     /\ wrapResult.args[m + 2] = XdgRuntimeDir(env)
                     /\ Under(thisConfig.repoRoot, XdgRuntimeDir(env))

\* A symlinked project root outside the home: both binds are present
C21_SymlinkedRoot ==
    /\ WrappedBwrap
    /\ realpath(thisConfig.repoRoot, hostFacts.links) # thisConfig.repoRoot
    /\ thisConfig.shareTree = realpath(thisConfig.repoRoot, hostFacts.links)
    /\ ShareTreeBinds(wrapResult.args) # {}

----------------------------------------------------------------------------
(* SSH staging: claim C22, checked under Spec *)

\* The .ssh directory of the isolated home
SandboxSshDir == Join(claudeHome, ".ssh")

\* The files below the .ssh directory of the isolated home
SshStaged == {p \in fsFiles : Under(p, SandboxSshDir) /\ p # SandboxSshDir}

\* The names SSH staging may give a copy: known_hosts, config, *.pub
PublicSshNames ==
    {Join(SandboxSshDir, "known_hosts"), Join(SandboxSshDir, "config")}
    \cup {p \in SshStaged : EndsWithPub(p) /\ p \in Children(SandboxSshDir, fsDirs, fsFiles)}

\* C22: SSH staging copies only non-secret material.  With allowSshAgent
\* enabled the only files under the session's .ssh directory are known_hosts,
\* the rewritten config and files whose name ends in ".pub", each the copy of a
\* file of the host's ~/.ssh; no other file of ~/.ssh, the private key in
\* particular, is copied; with allowSshAgent disabled the session directory
\* gets no .ssh directory at all.
C22_OnlyPublicSshMaterial ==
    sessionId # "none" =>
        /\ SshStaged \subseteq PublicSshNames
        /\ \A p \in SshStaged :
              /\ options.allowSshAgent
              /\ \E q \in Children(SshDir, fsDirs, fsFiles) \cap fsFiles :
                    Staged(q, claudeHome) = p
        /\ Staged(SshDir \o <<"/", "id">>, claudeHome) \notin fsFiles
        /\ ~options.allowSshAgent =>
              /\ SandboxSshDir \notin fsDirs
              /\ Join(SandboxSshDir, "controlmaster") \notin fsDirs

\* A run with --allow-ssh-agent has staged known_hosts, config and id.pub
\* next to the controlmaster directory while the host's ~/.ssh holds the
\* private key id
C22_Witness ==
    /\ pc = "staged"
    /\ options.allowSshAgent
    /\ SshDir \o <<"/", "id">> \in fsFiles
    /\ Join(SandboxSshDir, "controlmaster") \in fsDirs
    /\ SshStaged = {Join(SandboxSshDir, "known_hosts"), Join(SandboxSshDir, "config"),
                    SandboxSshDir \o <<"/", "id", ".pub">>}

\* A run without --allow-ssh-agent has passed the staging step
C22_WitnessDisabled ==
    /\ pc = "staged"
    /\ rev = "A"
    /\ ~options.allowSshAgent
    /\ isDirectory(SshDir, fsDirs)
    /\ claudeHome \in fsDirs

====
